---- MODULE Spec2Model ----
(***************************************************************************)
(* A model of the chess search-and-evaluation engine of src/chessai.py     *)
(* (class ChessAI): the position cache, the heuristic valuation, the move  *)
(* ordering, the alpha-beta search, the root move selection and the cache  *)
(* persistence.                                                            *)
(*                                                                         *)
(* The rules engine (python-chess) is external to the repository.  It is   *)
(* represented by a reduced board: two files of the chess board, pawns and *)
(* knights only, squares numbered as python-chess numbers them (square =   *)
(* 8 * rank + file).  Valuations are integers in units of 1/1000, which    *)
(* makes every weight of ChessAI.__init__ an integer.                      *)
(***************************************************************************)
EXTENDS Integers, Sequences, FiniteSets, TLC

VARIABLES
    engine,          \* "none" | "ready" | "failed" | "crashed": the ChessAI object of the process
    model,           \* "unrequested" | "loaded" | "missing": what __init__ did about model_path
    position_cache,  \* self.position_cache: a dict, kept in insertion order, of <<hash, valuation>>
    cache_file,      \* the file at cache_path: whether it exists, and its bytes
    board,           \* the caller's chess.Board: [pos, turn, stack]
    calls,           \* number of engine calls made so far
    last             \* the last engine call: its arguments, its entry state and its outcome

vars == <<engine, model, position_cache, cache_file, board, calls, last>>

(***************************************************************************)
(* Bounds of the exploration.                                              *)
(***************************************************************************)
MaxDepth == 3
MaxCalls == 2
\* The number of nested frames of move_optimization and alpha_beta_search that the
\* interpreter's stack holds; the call that would exceed it raises RecursionError.
RecursionLimit == 5

(***************************************************************************)
(* The rules engine: a reduced chess.Board.                                *)
(***************************************************************************)
Files == {0, 1}
Ranks == 0 .. 7
Squares == {8 * r + f : r \in Ranks, f \in Files}

FileOf(sq) == sq % 8
RankOf(sq) == sq \div 8

\* Piece codes: 0 is an empty square, 1..6 are White's pawn, knight, bishop, rook,
\* queen and king (chess.PAWN .. chess.KING), 7..12 the same for Black.
PieceCode(piece_type, color) == IF color THEN piece_type ELSE piece_type + 6
ColorOf(code) == code <= 6
TypeOf(code) == IF code <= 6 THEN code ELSE code - 6

\* board.pieces(piece_type, color): the set of squares holding that piece.
Pieces(pos, piece_type, color) == {sq \in Squares : pos[sq] = PieceCode(piece_type, color)}

NullMove == [from |-> 0, to |-> 0]

Own(pos, sq, color) == pos[sq] # 0 /\ ColorOf(pos[sq]) = color
Enemy(pos, sq, color) == pos[sq] # 0 /\ ColorOf(pos[sq]) # color

\* Knight moves that stay on the reduced board and do not land on an own piece.
KnightJumps == {<<1, 2>>, <<1, -2>>, <<-1, 2>>, <<-1, -2>>, <<2, 1>>, <<2, -1>>, <<-2, 1>>, <<-2, -1>>}

OnBoard(file, rank) == file \in Files /\ rank \in Ranks

KnightMoves(pos, color) ==
    {[from |-> x[1], to |-> x[1] + x[2][1] + 8 * x[2][2]] : x \in
        {y \in Pieces(pos, 2, color) \X KnightJumps :
            /\ OnBoard(FileOf(y[1]) + y[2][1], RankOf(y[1]) + y[2][2])
            /\ ~Own(pos, y[1] + y[2][1] + 8 * y[2][2], color)}}

Forward(color) == IF color THEN 1 ELSE -1

\* A pawn captures one rank forward on an adjacent file, onto an enemy piece.
PawnCaptures(pos, color) ==
    {[from |-> x[1], to |-> x[1] + x[2] + 8 * Forward(color)] : x \in
        {y \in Pieces(pos, 1, color) \X {1, -1} :
            /\ OnBoard(FileOf(y[1]) + y[2], RankOf(y[1]) + Forward(color))
            /\ Enemy(pos, y[1] + y[2] + 8 * Forward(color), color)}}

\* A pawn advances one rank forward onto an empty square.
PawnAdvances(pos, color) ==
    {[from |-> s, to |-> s + 8 * Forward(color)] : s \in
        {y \in Pieces(pos, 1, color) :
            /\ OnBoard(FileOf(y), RankOf(y) + Forward(color))
            /\ pos[y + 8 * Forward(color)] = 0}}

\* The generation order of the rules engine: piece moves, then pawn captures, then
\* pawn advances, each from the highest square down.
MoveRank(pos, m) ==
    (IF TypeOf(pos[m.from]) = 2 THEN 0
     ELSE IF pos[m.to] # 0 THEN 1 ELSE 2) * 4096 + (63 - m.from) * 64 + (63 - m.to)

RECURSIVE InOrder(_, _)
InOrder(pos, moves) ==
    IF moves = {} THEN <<>>
    ELSE LET first == CHOOSE m \in moves : \A n \in moves : MoveRank(pos, m) <= MoveRank(pos, n)
         IN  <<first>> \o InOrder(pos, moves \ {first})

\* board.legal_moves for the side to move, as the sequence the generator yields.
LegalMoves(pos, turn) ==
    InOrder(pos, KnightMoves(pos, turn) \cup PawnCaptures(pos, turn) \cup PawnAdvances(pos, turn))

\* The placement after a move; the null move changes no square.
Apply(pos, m) ==
    IF m = NullMove THEN pos
    ELSE [pos EXCEPT ![m.from] = 0, ![m.to] = pos[m.from]]

\* board.push(move): the prior state goes on the stack, the turn passes.
Push(b, m) ==
    [pos |-> Apply(b.pos, m), turn |-> ~b.turn,
     stack |-> Append(b.stack, [move |-> m, pos |-> b.pos])]

\* board.pop(): restores the state before the last move.  The caller checks that the
\* stack is not empty; python-chess raises IndexError when it is.
Pop(b) ==
    [pos |-> b.stack[Len(b.stack)].pos, turn |-> ~b.turn,
     stack |-> SubSeq(b.stack, 1, Len(b.stack) - 1)]

\* chess.polyglot.zobrist_hash(board): determined by the placement and the side to
\* move, independent of the move stack.
ZobristHash(b) == <<b.pos, b.turn>>

(***************************************************************************)
(* ChessAI: configuration set by __init__.                                 *)
(***************************************************************************)
piece_indices == <<1, 2, 3, 4, 5>>

white_piece_values == <<1000, 3000, 3300, 4200, 9000, 15000>>

\* -0.97 * x for each white value x, in units of 1/1000.
black_piece_values == [i \in 1 .. 6 |-> (-97 * white_piece_values[i]) \div 100]

piece_values == white_piece_values \o black_piece_values

mobility_weight == 100

pawn_development_weight == 50

(***************************************************************************)
(* ChessAI: the features of a position.                                    *)
(***************************************************************************)
\* F applied to the value of x, with x evaluated once.
With(x, F(_)) == CHOOSE v \in {F(y) : y \in {x}} : TRUE

RECURSIVE SumSeq(_)
SumSeq(s) == IF s = <<>> THEN 0 ELSE Head(s) + SumSeq(Tail(s))

\* build_distribution: the number of occurrences of each sample.
build_distribution(samples) ==
    [x \in {samples[i] : i \in DOMAIN samples} |->
        Cardinality({i \in DOMAIN samples : samples[i] = x})]

RECURSIVE ProductOver(_, _)
ProductOver(distribution, keys) ==
    IF keys = {} THEN 1
    ELSE LET k == CHOOSE x \in keys : TRUE
         IN  distribution[k] * ProductOver(distribution, keys \ {k})

\* get_entropy: returns the product of the counts; the code after the first return
\* statement is never executed.
get_entropy(samples) ==
    LET distribution == build_distribution(samples)
    IN  ProductOver(distribution, DOMAIN distribution)

get_move_starts(moves) == [i \in DOMAIN moves |-> moves[i].from]

\* count_pieces: one count per piece_indices entry for White, then for Black.
count_pieces(b) ==
    [i \in DOMAIN piece_indices |-> Cardinality(Pieces(b.pos, piece_indices[i], TRUE))]
    \o [i \in DOMAIN piece_indices |-> Cardinality(Pieces(b.pos, piece_indices[i], FALSE))]

\* The four mobility features of the two move lists.
MobilityFeatures(white_moves, black_moves) ==
    <<Len(white_moves), Len(black_moves),
      get_entropy(get_move_starts(white_moves)), get_entropy(get_move_starts(black_moves))>>

\* A White branch that forgets its board.pop(): the null move stays on the stack.
MobilityWhiteToMove_NoPop(b) ==
    [features |-> MobilityFeatures(LegalMoves(b.pos, b.turn),
                                   LegalMoves(Push(b, NullMove).pos, Push(b, NullMove).turn)),
     board |-> Push(b, NullMove), raised |-> FALSE]

\* get_mobility_features when board.turn is True: count, push the null move, count, pop.
MobilityWhiteToMove(b) ==
    [features |-> MobilityFeatures(LegalMoves(b.pos, b.turn),
                                   LegalMoves(Push(b, NullMove).pos, Push(b, NullMove).turn)),
     board |-> Pop(Push(b, NullMove)), raised |-> FALSE]

\* get_mobility_features when board.turn is False: count, pop, count, push the null move.
\* board.pop() on an empty move stack raises IndexError.
MobilityBlackToMove(b) ==
    IF b.stack = <<>>
    THEN [features |-> <<0, 0, 0, 0>>, board |-> b, raised |-> TRUE]
    ELSE [features |-> MobilityFeatures(LegalMoves(Pop(b).pos, Pop(b).turn),
                                        LegalMoves(b.pos, b.turn)),
          board |-> Push(Pop(b), NullMove), raised |-> FALSE]

get_mobility_features(b) ==
    IF b.turn THEN MobilityWhiteToMove(b) ELSE MobilityBlackToMove(b)

RECURSIVE SumRanks(_)
SumRanks(squares) ==
    IF squares = {} THEN 0
    ELSE LET sq == CHOOSE x \in squares : TRUE
         IN  RankOf(sq) + SumRanks(squares \ {sq})

\* get_pawn_development: the sum of int(square / 8) over each side's pawns.
get_pawn_development(b) ==
    <<SumRanks(Pieces(b.pos, 1, TRUE)), SumRanks(Pieces(b.pos, 1, FALSE))>>

\* get_heuristic_features: the piece counts are read first, the mobility features
\* next, and the pawn development from the board as get_mobility_features left it.
get_heuristic_features(b) ==
    With(get_mobility_features(b), LAMBDA mobility :
        [piece_counts |-> count_pieces(b),
         mobility_features |-> mobility.features,
         pawn_development |-> get_pawn_development(mobility.board),
         board |-> mobility.board, raised |-> mobility.raised])

(***************************************************************************)
(* ChessAI: the position cache and the heuristic valuation.                *)
(***************************************************************************)
CacheKeys(cache) == {cache[i][1] : i \in DOMAIN cache}

\* Whether the dict holds the key.
CacheHas(cache, h) == \E i \in DOMAIN cache : cache[i][1] = h

\* A lookup that never finds the key, so that every valuation is computed and stored.
Cached_Never(cache, h) == FALSE

\* The test of heuristic_valuation: position_hash in self.position_cache
Cached(cache, h) == CacheHas(cache, h)

\* self.position_cache[position_hash]
CacheGet(cache, h) == cache[CHOOSE i \in DOMAIN cache : cache[i][1] = h][2]

\* self.position_cache[position_hash] = valuation: a dict keeps one entry per key, in
\* the place of its first insertion.
CachePut(cache, h, v) ==
    IF CacheHas(cache, h)
    THEN [i \in DOMAIN cache |-> IF cache[i][1] = h THEN <<h, v>> ELSE cache[i]]
    ELSE Append(cache, <<h, v>>)

\* The weighted sum of heuristic_valuation: enumerate(piece_counts) pairs the k-th
\* count with the k-th entry of self.piece_values.
Valuation(f) ==
    SumSeq([k \in DOMAIN f.piece_counts |-> f.piece_counts[k] * piece_values[k]])
    + mobility_weight * (f.mobility_features[1] * f.mobility_features[3]
                         - f.mobility_features[2] * f.mobility_features[4])
    + pawn_development_weight * (f.pawn_development[1] - f.pawn_development[2])

\* The material term of heuristic_valuation: the first sum of the weighted sum, over
\* the counts that count_pieces returns for the board.
material_term(b) ==
    SumSeq([k \in DOMAIN count_pieces(b) |-> count_pieces(b)[k] * piece_values[k]])

\* The outcome of a computed valuation: it is stored in the cache and returned.
Computed(b, cache, position_hash, valuation) ==
    [value |-> valuation, board |-> b, cache |-> CachePut(cache, position_hash, valuation),
     raised |-> FALSE]

\* heuristic_valuation(board): the outcome is the returned value, the board and the
\* cache as the call leaves them, and whether an exception left the call.
heuristic_valuation(b, cache) ==
    IF Cached(cache, ZobristHash(b))
    THEN [value |-> CacheGet(cache, ZobristHash(b)), board |-> b, cache |-> cache,
          raised |-> FALSE]
    ELSE With(get_heuristic_features(b), LAMBDA f :
            IF f.raised
            THEN [value |-> 0, board |-> f.board, cache |-> cache, raised |-> TRUE]
            ELSE Computed(f.board, cache, ZobristHash(b), Valuation(f)))

\* evaluate_move(board, move): push, value, pop.
evaluate_move(b, cache, move) ==
    With(heuristic_valuation(Push(b, move), cache), LAMBDA r :
        IF r.raised THEN r
        ELSE IF r.board.stack = <<>>
             THEN [value |-> 0, board |-> r.board, cache |-> r.cache, raised |-> TRUE]
             ELSE [value |-> r.value, board |-> Pop(r.board), cache |-> r.cache,
                   raised |-> FALSE])

(***************************************************************************)
(* ChessAI: move ordering and the alpha-beta search.                       *)
(***************************************************************************)
\* The values a caller passes for an unbounded window (float infinity), and the
\* starting min_value of move_optimization (1.0e10): a number above every valuation
\* and below infinity.
Infinity == 2 * (10 ^ 9)
min_value_start == 10 ^ 9

\* The key function of sorted(): evaluate_move on each legal move, in list order.
RECURSIVE MoveKeys(_, _, _, _)
MoveKeys(b, cache, moves, i) ==
    IF i > Len(moves)
    THEN [keys |-> <<>>, board |-> b, cache |-> cache, raised |-> FALSE]
    ELSE With(evaluate_move(b, cache, moves[i]), LAMBDA r :
            IF r.raised
            THEN [keys |-> <<>>, board |-> r.board, cache |-> r.cache, raised |-> TRUE]
            ELSE With(MoveKeys(r.board, r.cache, moves, i + 1), LAMBDA rest :
                    [rest EXCEPT !.keys = <<r.value>> \o rest.keys]))

\* sorted(): stable, ascending by key, or descending with reverse=True (equal keys
\* keep their list order in both directions).
Before(keys, reverse, i, j) ==
    IF keys[i] = keys[j] THEN i < j
    ELSE IF reverse THEN keys[i] > keys[j] ELSE keys[i] < keys[j]

RECURSIVE SortedFrom(_, _, _, _)
SortedFrom(moves, keys, reverse, left) ==
    IF left = {} THEN <<>>
    ELSE LET i == CHOOSE x \in left : \A y \in left \ {x} : Before(keys, reverse, x, y)
         IN  <<moves[i]>> \o SortedFrom(moves, keys, reverse, left \ {i})

Sorted(moves, keys, reverse) == SortedFrom(moves, keys, reverse, DOMAIN moves)

\* The cutoff test of both branches.
Cutoff(alpha, beta) == alpha >= beta

\* The outcome of a call that an exception left.
Raised(b, cache, overflow) ==
    [value |-> 0, board |-> b, cache |-> cache, raised |-> TRUE, restored |-> FALSE,
     overflow |-> overflow]

RECURSIVE alpha_beta_search(_, _, _, _, _, _, _)
RECURSIVE WhiteLoop(_, _, _, _, _, _, _, _, _)
RECURSIVE BlackLoop(_, _, _, _, _, _, _, _, _)

\* The loop of the player == 'White' branch from the i-th sorted move on.  restored
\* records whether every nested call so far returned the board as it received it.
WhiteLoop(b, cache, moves, i, alpha, beta, depth, restored, frame) ==
    IF i > Len(moves)
    THEN [value |-> alpha, board |-> b, cache |-> cache, raised |-> FALSE,
          restored |-> restored, overflow |-> FALSE]
    ELSE With(alpha_beta_search(Push(b, moves[i]), cache, alpha, beta, "Black", depth - 1,
                                frame + 1),
              LAMBDA r :
            IF r.raised \/ r.board.stack = <<>> THEN Raised(r.board, r.cache, r.overflow)
            ELSE With(IF r.value > alpha THEN r.value ELSE alpha, LAMBDA alpha2 :
                    IF Cutoff(alpha2, beta)
                    THEN [value |-> alpha2, board |-> Pop(r.board), cache |-> r.cache,
                          raised |-> FALSE, restored |-> restored /\ r.restored,
                          overflow |-> FALSE]
                    ELSE WhiteLoop(Pop(r.board), r.cache, moves, i + 1, alpha2, beta, depth,
                                   restored /\ r.restored, frame)))

\* The loop of the player == 'Black' branch.
BlackLoop(b, cache, moves, i, alpha, beta, depth, restored, frame) ==
    IF i > Len(moves)
    THEN [value |-> beta, board |-> b, cache |-> cache, raised |-> FALSE,
          restored |-> restored, overflow |-> FALSE]
    ELSE With(alpha_beta_search(Push(b, moves[i]), cache, alpha, beta, "White", depth - 1,
                                frame + 1),
              LAMBDA r :
            IF r.raised \/ r.board.stack = <<>> THEN Raised(r.board, r.cache, r.overflow)
            ELSE With(IF r.value < beta THEN r.value ELSE beta, LAMBDA beta2 :
                    IF Cutoff(alpha, beta2)
                    THEN [value |-> beta2, board |-> Pop(r.board), cache |-> r.cache,
                          raised |-> FALSE, restored |-> restored /\ r.restored,
                          overflow |-> FALSE]
                    ELSE BlackLoop(Pop(r.board), r.cache, moves, i + 1, alpha, beta2, depth,
                                   restored /\ r.restored, frame)))

\* The outcome of a call with its restored flag set for the call itself.
Returned(out, b) == [out EXCEPT !.restored = out.restored /\ ~out.raised /\ out.board = b]

\* The test of the leaf case.
IsLeaf(depth) == depth = 0

\* alpha_beta_search(board, alpha, beta, player, depth), entered as the frame-th nested
\* frame of the interpreter's stack.
alpha_beta_search(b, cache, alpha, beta, player, depth, frame) ==
    IF frame > RecursionLimit THEN Raised(b, cache, TRUE)
    ELSE IF IsLeaf(depth)
    THEN With(heuristic_valuation(b, cache), LAMBDA r :
            [value |-> r.value, board |-> r.board, cache |-> r.cache,
             raised |-> r.raised, restored |-> ~r.raised /\ r.board = b,
             overflow |-> FALSE])
    ELSE With(LegalMoves(b.pos, b.turn), LAMBDA moves :
         With(MoveKeys(b, cache, moves, 1), LAMBDA k :
            IF k.raised THEN Raised(k.board, k.cache, FALSE)
            ELSE IF player = "White"
                 THEN With(WhiteLoop(k.board, k.cache, Sorted(moves, k.keys, TRUE),
                                     1, alpha, beta, depth, TRUE, frame),
                           LAMBDA out : Returned(out, b))
                 ELSE With(BlackLoop(k.board, k.cache, Sorted(moves, k.keys, FALSE),
                                     1, alpha, beta, depth, TRUE, frame),
                           LAMBDA out : Returned(out, b))))

(***************************************************************************)
(* ChessAI: root move selection and persistence.                           *)
(***************************************************************************)
\* The initial opt_move of move_optimization, the empty string ''.
NoMove == [from |-> -1, to |-> -1]

\* The player label move_optimization passes to alpha_beta_search.
RootPlayer == "White"

\* value < min_value: the comparison that replaces the tracked move.
Better(value, min_value) == value < min_value

\* The loop of move_optimization over board.legal_moves from the i-th move on; values
\* collects the searched value of each root move.
RECURSIVE RootLoop(_, _, _, _, _, _, _, _, _, _)
RootLoop(b, cache, moves, i, alpha, beta, depth, opt_move, min_value, values) ==
    IF i > Len(moves)
    THEN [move |-> opt_move, board |-> b, cache |-> cache, raised |-> FALSE,
          values |-> values, overflow |-> FALSE]
    ELSE With(alpha_beta_search(Push(b, moves[i]), cache, alpha, beta, RootPlayer, depth - 1,
                                2),
              LAMBDA r :
            IF r.raised \/ r.board.stack = <<>>
            THEN [move |-> opt_move, board |-> r.board, cache |-> r.cache,
                  raised |-> TRUE, values |-> values, overflow |-> r.overflow]
            ELSE IF Better(r.value, min_value)
                 THEN RootLoop(Pop(r.board), r.cache, moves, i + 1, alpha, beta, depth,
                               moves[i], r.value, Append(values, r.value))
                 ELSE RootLoop(Pop(r.board), r.cache, moves, i + 1, alpha, beta, depth,
                               opt_move, min_value, Append(values, r.value)))

\* move_optimization(board, alpha, beta, depth) up to its call of save_position_cache;
\* its own frame is the first, the searches it calls are entered as the second.
move_optimization(b, cache, alpha, beta, depth) ==
    RootLoop(b, cache, LegalMoves(b.pos, b.turn), 1, alpha, beta, depth, NoMove,
             min_value_start, <<>>)

\* pickle.dumps(self.position_cache): a framed stream, the items in dict order.
Token(tag, item) == [tag |-> tag, item |-> item]

Dumps(cache) ==
    <<Token("PROTO", <<>>)>> \o [i \in DOMAIN cache |-> Token("ITEM", cache[i])]
    \o <<Token("STOP", <<>>)>>

\* pickle.load accepts a stream only when it is framed from PROTO to STOP.
Loadable(bytes) ==
    /\ Len(bytes) >= 2
    /\ bytes[1].tag = "PROTO"
    /\ bytes[Len(bytes)].tag = "STOP"
    /\ \A i \in 2 .. Len(bytes) - 1 : bytes[i].tag = "ITEM"

\* A load that loses the last item of the stream.
Loads_DropLast(bytes) == [i \in 1 .. Len(bytes) - 3 |-> bytes[i + 1].item]

Loads(bytes) == [i \in 1 .. Len(bytes) - 2 |-> bytes[i + 1].item]

NoFile == [exists |-> FALSE, bytes |-> <<>>]
File(bytes) == [exists |-> TRUE, bytes |-> bytes]

\* A save that writes the stream of an empty mapping whatever the cache holds.
save_position_cache_Empty(cache) == File(Dumps(<<>>))

\* save_position_cache run to completion: open(cache_path, 'wb') truncates the file,
\* write and close leave the whole stream in it.
save_position_cache(cache) == File(Dumps(cache))

\* The file a crash inside save_position_cache leaves: after open() the file is
\* empty, and of the written stream any prefix may have reached the file.
TornFiles(cache) == {File(SubSeq(Dumps(cache), 1, n)) : n \in 0 .. Len(Dumps(cache))}

(***************************************************************************)
(* The boards a caller hands to the engine.  No pawn stands on its side's  *)
(* double-step rank and none can reach its promotion rank within the plies *)
(* explored, so the reduced move generator covers every move that occurs.  *)
(***************************************************************************)
Setup(placed) == [sq \in Squares |-> IF sq \in DOMAIN placed THEN placed[sq] ELSE 0]

\* White: pawn b4, knight a3.  Black: knights a4, b8.
KnightsPosition == Setup(25 :> 1 @@ 16 :> 2 @@ 24 :> 8 @@ 57 :> 8)
\* White: pawn a3.  Black: pawn a5, knight b8.
BlockadePosition == Setup(16 :> 1 @@ 32 :> 7 @@ 57 :> 8)
\* White: pawn a4.  Black: pawn a5.  Neither side has a legal move.
StuckPosition == Setup(24 :> 1 @@ 32 :> 7)

NewBoard(pos, turn) == [pos |-> pos, turn |-> turn, stack |-> <<>>]

\* A board on which the caller has played the first legal move.
Played(b) == Push(b, LegalMoves(b.pos, b.turn)[1])

StartBoards ==
    {NewBoard(KnightsPosition, TRUE), NewBoard(KnightsPosition, FALSE),
     Played(NewBoard(KnightsPosition, TRUE)), Played(NewBoard(BlockadePosition, TRUE)),
     NewBoard(BlockadePosition, TRUE), NewBoard(StuckPosition, TRUE)}

\* The least depth a caller passes: one below the leaf depth.
MinDepth == 0 - 1

Players == {"White", "Black"}

\* The windows a caller passes for alpha and beta.
Windows == {<<-Infinity, Infinity>>}

(***************************************************************************)
(* The state machine: one action per operation of ChessAI, each run to its *)
(* return, its exception or the crash of the process.                      *)
(***************************************************************************)
NoCall ==
    [op |-> "none", alpha |-> 0, beta |-> 0, player |-> "", depth |-> 0, move |-> NoMove,
     entry |-> NewBoard(StuckPosition, TRUE), cache0 |-> <<>>, file0 |-> NoFile,
     value |-> 0, ret_move |-> NoMove, values |-> <<>>, raised |-> FALSE,
     restored |-> TRUE, overflow |-> FALSE,
     prev_op |-> "none", prev_value |-> 0, prev_raised |-> FALSE,
     saved |-> <<>>, saved_live |-> FALSE, replaced |-> <<>>, saves |-> 0]

Init ==
    /\ engine = "none"
    /\ model = "unrequested"
    /\ position_cache = <<>>
    /\ cache_file = NoFile
    /\ board \in StartBoards
    /\ calls = 0
    /\ last = NoCall

\* ChessAI(cache_path, model_path) in a new process: want_model says whether a
\* model_path is given, model_exists whether a file exists at it.  An unreadable cache
\* file raises out of the constructor, before model_path is looked at.
Construct(want_model, model_exists) ==
    /\ last' = [NoCall EXCEPT !.op = "__init__", !.file0 = cache_file,
                              !.saved = last.saved, !.saved_live = last.saved_live,
                              !.replaced = last.replaced]
    /\ IF cache_file.exists /\ ~Loadable(cache_file.bytes)
       THEN /\ engine' = "failed"
            /\ position_cache' = <<>>
            /\ model' = "unrequested"
       ELSE /\ engine' = "ready"
            /\ position_cache' = IF cache_file.exists THEN Loads(cache_file.bytes) ELSE <<>>
            /\ model' = IF ~want_model THEN "unrequested"
                        ELSE IF model_exists THEN "loaded" ELSE "missing"
    /\ UNCHANGED <<cache_file, board, calls>>

\* The first start of the process.
Start(want_model, model_exists) ==
    /\ engine = "none"
    /\ Construct(want_model, model_exists)

\* The start after a crash, with the configuration of the crashed process.
Restart ==
    /\ engine = "crashed"
    /\ Construct(model # "unrequested", model = "loaded")

\* A new ChessAI with the same cache_path and configuration, constructed after the
\* engine before it has finished a call.
Reopen ==
    /\ engine = "ready"
    /\ last.op # "__init__"
    /\ Construct(model # "unrequested", model = "loaded")

CanCall == engine = "ready" /\ calls < MaxCalls

\* The record of a call that starts now: its entry state and the call before it.
Called(op) ==
    [NoCall EXCEPT !.op = op, !.entry = board, !.cache0 = position_cache,
                   !.file0 = cache_file, !.prev_op = last.op, !.prev_value = last.value,
                   !.prev_raised = last.raised, !.saved = last.saved,
                   !.saved_live = last.saved_live, !.replaced = last.replaced]

\* The mapping a file holds, empty when there is no file or no complete stream in it.
Held(file) == IF file.exists /\ Loadable(file.bytes) THEN Loads(file.bytes) ELSE <<>>

\* The record of a call in which save_position_cache ran to completion on cache.
Persisted(call, cache) ==
    [call EXCEPT !.saved = cache, !.saved_live = TRUE, !.replaced = Held(cache_file),
                 !.saves = call.saves + 1]

HeuristicValuationCall ==
    /\ CanCall
    /\ \E r \in {heuristic_valuation(board, position_cache)} :
           /\ board' = r.board
           /\ position_cache' = r.cache
           /\ last' = [Called("heuristic_valuation") EXCEPT
                          !.value = r.value, !.raised = r.raised,
                          !.restored = r.board = board]
    /\ calls' = calls + 1
    /\ UNCHANGED <<engine, model, cache_file>>

EvaluateMoveCall(m) ==
    /\ CanCall
    /\ \E r \in {evaluate_move(board, position_cache, m)} :
           /\ board' = r.board
           /\ position_cache' = r.cache
           /\ last' = [Called("evaluate_move") EXCEPT
                          !.move = m, !.value = r.value, !.raised = r.raised,
                          !.restored = r.board = board]
    /\ calls' = calls + 1
    /\ UNCHANGED <<engine, model, cache_file>>

AlphaBetaSearchCall(alpha, beta, player, depth) ==
    /\ CanCall
    /\ \E r \in {alpha_beta_search(board, position_cache, alpha, beta, player, depth, 1)} :
           /\ board' = r.board
           /\ position_cache' = r.cache
           /\ last' = [Called("alpha_beta_search") EXCEPT
                          !.alpha = alpha, !.beta = beta, !.player = player,
                          !.depth = depth, !.value = r.value, !.raised = r.raised,
                          !.restored = r.restored, !.overflow = r.overflow]
    /\ calls' = calls + 1
    /\ UNCHANGED <<engine, model, cache_file>>

\* move_optimization: the search over the root moves, then save_position_cache, then
\* the return of opt_move.  An exception in the search leaves before the save.
MoveOptimizationCall(alpha, beta, depth) ==
    /\ CanCall
    /\ \E r \in {move_optimization(board, position_cache, alpha, beta, depth)} :
           /\ board' = r.board
           /\ position_cache' = r.cache
           /\ cache_file' = IF r.raised THEN cache_file ELSE save_position_cache(r.cache)
           /\ last' = [(IF r.raised THEN Called("move_optimization")
                         ELSE Persisted(Called("move_optimization"), r.cache)) EXCEPT
                          !.alpha = alpha, !.beta = beta, !.depth = depth,
                          !.ret_move = r.move, !.values = r.values, !.raised = r.raised,
                          !.restored = r.board = board, !.overflow = r.overflow]
    /\ calls' = calls + 1
    /\ UNCHANGED <<engine, model>>

SavePositionCacheCall ==
    /\ CanCall
    /\ cache_file' = save_position_cache(position_cache)
    /\ last' = Persisted(Called("save_position_cache"), position_cache)
    /\ calls' = calls + 1
    /\ UNCHANGED <<engine, model, position_cache, board>>

\* The process dies inside save_position_cache, between open() and the end of close().
SavePositionCacheCrash ==
    /\ CanCall
    /\ cache_file' \in TornFiles(position_cache)
    /\ engine' = "crashed"
    /\ last' = [Called("save_position_cache") EXCEPT !.saved_live = FALSE]
    /\ calls' = calls + 1
    /\ UNCHANGED <<model, position_cache, board>>

\* The mapping of another ChessAI that shares cache_path: it has evaluated the stuck
\* position and nothing else.
OtherCache == heuristic_valuation(NewBoard(StuckPosition, TRUE), <<>>).cache

\* save_position_cache of that other engine, run to completion before this engine
\* has persisted anything.
OtherEnginePersist ==
    /\ CanCall
    /\ cache_file = NoFile
    /\ cache_file' = save_position_cache(OtherCache)
    /\ last' = [Called("other_persist") EXCEPT !.saved_live = FALSE]
    /\ calls' = calls + 1
    /\ UNCHANGED <<engine, model, position_cache, board>>

\* model_valuation: get_model_features calls self.get_mobility, which ChessAI does
\* not define, so the call raises after count_pieces, with or without a model.
ModelValuationCall ==
    /\ CanCall
    /\ last' = [Called("model_valuation") EXCEPT !.raised = TRUE]
    /\ calls' = calls + 1
    /\ UNCHANGED <<engine, model, position_cache, cache_file, board>>

Next ==
    \/ \E want_model \in BOOLEAN, model_exists \in BOOLEAN : Start(want_model, model_exists)
    \/ Restart
    \/ Reopen
    \/ OtherEnginePersist
    \/ HeuristicValuationCall
    \/ \E i \in 1 .. Len(LegalMoves(board.pos, board.turn)) :
          EvaluateMoveCall(LegalMoves(board.pos, board.turn)[i])
    \/ \E w \in Windows, player \in Players, depth \in MinDepth .. MaxDepth :
          AlphaBetaSearchCall(w[1], w[2], player, depth)
    \/ \E w \in Windows, depth \in MinDepth + 1 .. MaxDepth :
          MoveOptimizationCall(w[1], w[2], depth)
    \/ SavePositionCacheCall
    \/ SavePositionCacheCrash
    \/ ModelValuationCall

Spec == Init /\ [][Next]_vars

(***************************************************************************)
(* Reference: the exhaustive minimax traversal.  It visits the moves of    *)
(* every node in the order alpha_beta_search sorts them, evaluates leaves  *)
(* with heuristic_valuation on the same cache, and never cuts off.         *)
(***************************************************************************)
RECURSIVE exhaustive_minimax(_, _, _, _)
RECURSIVE MaxLoop(_, _, _, _, _, _)
RECURSIVE MinLoop(_, _, _, _, _, _)

MaxLoop(b, cache, moves, i, best, depth) ==
    IF i > Len(moves)
    THEN [value |-> best, board |-> b, cache |-> cache, raised |-> FALSE]
    ELSE With(exhaustive_minimax(Push(b, moves[i]), cache, "Black", depth - 1), LAMBDA r :
            IF r.raised \/ r.board.stack = <<>>
            THEN [value |-> 0, board |-> r.board, cache |-> r.cache, raised |-> TRUE]
            ELSE MaxLoop(Pop(r.board), r.cache, moves, i + 1,
                         IF r.value > best THEN r.value ELSE best, depth))

MinLoop(b, cache, moves, i, best, depth) ==
    IF i > Len(moves)
    THEN [value |-> best, board |-> b, cache |-> cache, raised |-> FALSE]
    ELSE With(exhaustive_minimax(Push(b, moves[i]), cache, "White", depth - 1), LAMBDA r :
            IF r.raised \/ r.board.stack = <<>>
            THEN [value |-> 0, board |-> r.board, cache |-> r.cache, raised |-> TRUE]
            ELSE MinLoop(Pop(r.board), r.cache, moves, i + 1,
                         IF r.value < best THEN r.value ELSE best, depth))

exhaustive_minimax(b, cache, player, depth) ==
    IF depth = 0
    THEN With(heuristic_valuation(b, cache), LAMBDA r :
            [value |-> r.value, board |-> r.board, cache |-> r.cache, raised |-> r.raised])
    ELSE With(LegalMoves(b.pos, b.turn), LAMBDA moves :
         With(MoveKeys(b, cache, moves, 1), LAMBDA k :
            IF k.raised
            THEN [value |-> 0, board |-> k.board, cache |-> k.cache, raised |-> TRUE]
            ELSE IF player = "White"
                 THEN MaxLoop(k.board, k.cache, Sorted(moves, k.keys, TRUE), 1, -Infinity, depth)
                 ELSE MinLoop(k.board, k.cache, Sorted(moves, k.keys, FALSE), 1, Infinity,
                              depth)))

(***************************************************************************)
(* Reference: alpha_beta_search with the other visiting order.  Every node *)
(* evaluates the same keys with evaluate_move on the same cache and makes  *)
(* the same cutoff tests, but visits its moves in the opposite direction:  *)
(* ascending at 'White' nodes, descending at 'Black' nodes.                *)
(***************************************************************************)
RECURSIVE reordered_search(_, _, _, _, _, _)
RECURSIVE ReorderedWhiteLoop(_, _, _, _, _, _, _)
RECURSIVE ReorderedBlackLoop(_, _, _, _, _, _, _)

Failed(b, cache) == [value |-> 0, board |-> b, cache |-> cache, raised |-> TRUE]

ReorderedWhiteLoop(b, cache, moves, i, alpha, beta, depth) ==
    IF i > Len(moves)
    THEN [value |-> alpha, board |-> b, cache |-> cache, raised |-> FALSE]
    ELSE With(reordered_search(Push(b, moves[i]), cache, alpha, beta, "Black", depth - 1),
              LAMBDA r :
            IF r.raised \/ r.board.stack = <<>> THEN Failed(r.board, r.cache)
            ELSE With(IF r.value > alpha THEN r.value ELSE alpha, LAMBDA alpha2 :
                    IF Cutoff(alpha2, beta)
                    THEN [value |-> alpha2, board |-> Pop(r.board), cache |-> r.cache,
                          raised |-> FALSE]
                    ELSE ReorderedWhiteLoop(Pop(r.board), r.cache, moves, i + 1, alpha2,
                                            beta, depth)))

ReorderedBlackLoop(b, cache, moves, i, alpha, beta, depth) ==
    IF i > Len(moves)
    THEN [value |-> beta, board |-> b, cache |-> cache, raised |-> FALSE]
    ELSE With(reordered_search(Push(b, moves[i]), cache, alpha, beta, "White", depth - 1),
              LAMBDA r :
            IF r.raised \/ r.board.stack = <<>> THEN Failed(r.board, r.cache)
            ELSE With(IF r.value < beta THEN r.value ELSE beta, LAMBDA beta2 :
                    IF Cutoff(alpha, beta2)
                    THEN [value |-> beta2, board |-> Pop(r.board), cache |-> r.cache,
                          raised |-> FALSE]
                    ELSE ReorderedBlackLoop(Pop(r.board), r.cache, moves, i + 1, alpha,
                                            beta2, depth)))

reordered_search(b, cache, alpha, beta, player, depth) ==
    IF IsLeaf(depth)
    THEN With(heuristic_valuation(b, cache), LAMBDA r :
            [value |-> r.value, board |-> r.board, cache |-> r.cache, raised |-> r.raised])
    ELSE With(LegalMoves(b.pos, b.turn), LAMBDA moves :
         With(MoveKeys(b, cache, moves, 1), LAMBDA k :
            IF k.raised THEN Failed(k.board, k.cache)
            ELSE IF player = "White"
                 THEN ReorderedWhiteLoop(k.board, k.cache, Sorted(moves, k.keys, FALSE), 1,
                                         alpha, beta, depth)
                 ELSE ReorderedBlackLoop(k.board, k.cache, Sorted(moves, k.keys, TRUE), 1,
                                         alpha, beta, depth)))

(***************************************************************************)
(* Claims.                                                                 *)
(***************************************************************************)
SearchOps == {"heuristic_valuation", "evaluate_move", "alpha_beta_search", "move_optimization"}

\* C1: every call of alpha_beta_search, the root call and every nested call, returns
\* with the board (position, side to move, move stack) as it was when the call was
\* entered.
C1_SearchCallRestoresBoard ==
    (last.op = "alpha_beta_search" /\ last.depth >= 0) =>
        /\ ~last.raised
        /\ last.restored
        /\ board = last.entry

\* C2: when move_optimization returns, for a root with either side to move and any
\* depth >= 1, the board (position, side to move, move stack, hence its hash) is what
\* it was before the call.
C2_MoveOptimizationRestoresBoard ==
    (last.op = "move_optimization" /\ last.depth >= 1) =>
        /\ ~last.raised
        /\ board = last.entry
        /\ ZobristHash(board) = ZobristHash(last.entry)

\* A move_optimization call of depth 3 on a root with White to move and legal moves
\* has returned, having evaluated new positions.
C2_Witness ==
    /\ last.op = "move_optimization"
    /\ last.depth = MaxDepth
    /\ last.entry.turn
    /\ Len(last.values) >= 2
    /\ Len(position_cache) > Len(last.cache0)
    /\ board = last.entry

\* C3: with alpha = -infinity and beta = +infinity, alpha_beta_search returns the value
\* of the exhaustive minimax traversal of the same position, player and depth.
C3_PruningKeepsMinimaxValue ==
    (/\ last.op = "alpha_beta_search"
     /\ last.depth >= 0
     /\ ~last.raised
     /\ last.alpha = -Infinity
     /\ last.beta = Infinity) =>
        last.value = exhaustive_minimax(last.entry, last.cache0, last.player, last.depth).value

\* Every entry of the cache before is still in the cache after, under the same key with
\* the same value.
Retained(before, after) ==
    \A i \in DOMAIN before :
        /\ CacheHas(after, before[i][1])
        /\ CacheGet(after, before[i][1]) = before[i][2]

\* C4: across heuristic_valuation, evaluate_move, alpha_beta_search and
\* move_optimization calls the cache is append-only: no key is removed and no stored
\* value is replaced by another.
C4_CacheAppendOnly ==
    [][(calls' = calls + 1 /\ last'.op \in SearchOps) =>
           Retained(position_cache, position_cache')]_vars

\* A search call that started with a filled cache has returned with more entries.
C4_Witness ==
    /\ last.op \in SearchOps
    /\ last.cache0 # <<>>
    /\ Len(position_cache) > Len(last.cache0)
    /\ Retained(last.cache0, position_cache)

\* The place of a move in a list of moves, 0 when it is not in it.
IndexOf(moves, m) ==
    IF \E i \in DOMAIN moves : moves[i] = m
    THEN CHOOSE i \in DOMAIN moves : moves[i] = m
    ELSE 0

\* The searched value of the move that move_optimization returned.
ReturnedValue == last.values[IndexOf(LegalMoves(last.entry.pos, last.entry.turn), last.ret_move)]

\* C5: every call of alpha_beta_search and of move_optimization with an integer depth
\* terminates by reaching the depth == 0 leaf case: no call recurses until the
\* interpreter's stack is exhausted.
C5_SearchReachesLeaf ==
    last.op \in {"alpha_beta_search", "move_optimization"} => ~last.overflow

\* C6: move_optimization returns a root move whose searched value is the maximum over
\* the root moves when White is to move at the root, the minimum when Black is.
C6_BestForRootMover ==
    (/\ last.op = "move_optimization"
     /\ ~last.raised
     /\ last.values # <<>>) =>
        /\ last.ret_move # NoMove
        /\ \A i \in DOMAIN last.values :
              IF last.entry.turn THEN last.values[i] <= ReturnedValue
              ELSE last.values[i] >= ReturnedValue

\* C7: of two successive heuristic_valuation calls on the same board, the second
\* returns the value of the first and is answered from the cache: it inserts nothing
\* and leaves the board alone.
C7_SecondValuationFromCache ==
    (/\ last.op = "heuristic_valuation"
     /\ last.prev_op = "heuristic_valuation") =>
        /\ ~last.raised
        /\ ~last.prev_raised
        /\ last.value = last.prev_value
        /\ position_cache = last.cache0
        /\ board = last.entry

\* C8: an engine constructed with a model_path that names no file never serves an
\* evaluation or a search: construction ends in the configuration error.
C8_MissingModelFailsFast ==
    ~(/\ model = "missing"
      /\ engine = "ready"
      /\ last.op \in SearchOps
      /\ ~last.raised)

\* C9: move_optimization returns no selected move exactly when the root has no legal
\* move: the outcome for a root without moves is never the outcome for a root with
\* moves.
C9_NoMoveOnlyWithoutLegalMoves ==
    (last.op = "move_optimization" /\ ~last.raised) =>
        (last.ret_move = NoMove <=> LegalMoves(last.entry.pos, last.entry.turn) = <<>>)

\* C10: after a crash inside save_position_cache the cache file holds the complete
\* mapping it held before the call or the complete new mapping.
C10_CrashLeavesOldOrNewFile ==
    (engine = "crashed" /\ last.op = "save_position_cache") =>
        \/ cache_file = last.file0
        \/ cache_file = File(Dumps(last.cache0))

\* C11: a new engine constructed on the cache_path after save_position_cache has
\* completed starts with exactly the mapping that was saved, key for key and value for
\* value in the same order; what the file held before the save does not come back.
C11_PersistLoadRoundTrip ==
    [][(last'.op = "__init__" /\ last.saved_live) =>
           /\ engine' = "ready"
           /\ position_cache' = last.saved]_vars

\* A new engine has loaded a saved mapping that is not empty, and the file that the
\* save replaced held an entry that the saved mapping does not have.
C11_Witness ==
    /\ last.op = "__init__"
    /\ engine = "ready"
    /\ last.saved_live
    /\ last.saved # <<>>
    /\ position_cache = last.saved
    /\ \E i \in DOMAIN last.replaced : ~CacheHas(position_cache, last.replaced[i][1])

\* C12: every completed call of move_optimization has persisted the cache once, after
\* the root moves were searched: when it returns, the cache file holds the in-memory
\* position_cache, the entries inserted by that search included.
C12_MoveOptimizationPersists ==
    (last.op = "move_optimization" /\ ~last.raised) =>
        /\ last.saves = 1
        /\ cache_file.exists
        /\ Loadable(cache_file.bytes)
        /\ Loads(cache_file.bytes) = position_cache
        /\ Retained(last.cache0, Loads(cache_file.bytes))

\* A completed move_optimization whose search inserted entries, over a file that held
\* an older mapping.
C12_Witness ==
    /\ last.op = "move_optimization"
    /\ ~last.raised
    /\ last.values # <<>>
    /\ last.file0.exists
    /\ Len(position_cache) > Len(Held(last.file0))
    /\ Len(position_cache) > Len(last.cache0)
    /\ Held(cache_file) = position_cache

\* C13: the order in which the moves of each node are visited does not change the
\* result: alpha_beta_search returns the value that the same search returns when every
\* node visits its moves in the opposite order.
C13_OrderKeepsValue ==
    (/\ last.op = "alpha_beta_search"
     /\ last.depth >= 0
     /\ ~last.raised) =>
        /\ ~reordered_search(last.entry, last.cache0, last.alpha, last.beta, last.player,
                             last.depth).raised
        /\ last.value = reordered_search(last.entry, last.cache0, last.alpha, last.beta,
                                         last.player, last.depth).value

\* The six piece types and the place of a (piece type, color) combination in the fixed
\* order of the twelve weights: the six of White, then the six of Black.
PieceTypes == 1 .. 6
WeightOf(piece_type, color) == piece_values[IF color THEN piece_type ELSE 6 + piece_type]

\* The sum over the twelve combinations of the count times the weight of the same
\* combination.
TwelveWayMaterial(pos) ==
    SumSeq([t \in PieceTypes |-> Cardinality(Pieces(pos, t, TRUE)) * WeightOf(t, TRUE)])
    + SumSeq([t \in PieceTypes |-> Cardinality(Pieces(pos, t, FALSE)) * WeightOf(t, FALSE)])

\* C14: the material term of heuristic_valuation is the sum over all twelve (piece
\* type, color) combinations of the combination's count times the weight configured
\* for that same combination.
C14_MaterialPairsCountWithOwnWeight ==
    last.op = "heuristic_valuation" =>
        material_term(last.entry) = TwelveWayMaterial(last.entry.pos)

\* The rank on which a side's pawns start, and the number of ranks between that rank
\* and a pawn's square.
PawnStartRank(color) == IF color THEN 1 ELSE 6
Advancement(sq, color) ==
    IF color THEN RankOf(sq) - PawnStartRank(color) ELSE PawnStartRank(color) - RankOf(sq)

RECURSIVE SumAdvancement(_, _)
SumAdvancement(squares, color) ==
    IF squares = {} THEN 0
    ELSE LET sq == CHOOSE x \in squares : TRUE
         IN  Advancement(sq, color) + SumAdvancement(squares \ {sq}, color)

\* C15: the pawn-advancement total of each side is the sum over the side's pawns of the
\* number of ranks between the pawn and the side's pawn starting rank.
C15_PawnTotalsCountRanksAdvanced ==
    last.op = "heuristic_valuation" =>
        get_pawn_development(last.entry) =
            <<SumAdvancement(Pieces(last.entry.pos, 1, TRUE), TRUE),
              SumAdvancement(Pieces(last.entry.pos, 1, FALSE), FALSE)>>

\* The mobility features of a position alone: both sides' legal moves on that position.
MobilityOfPosition(pos) == MobilityFeatures(LegalMoves(pos, TRUE), LegalMoves(pos, FALSE))

\* C16: a heuristic_valuation that computes its features measures both sides' legal
\* moves on the given position, around one null move that it undoes, whichever side is
\* to move: it returns with the board unchanged and the caller's moves on the stack.
C16_MobilityMeasuredInPlace ==
    (last.op = "heuristic_valuation" /\ ~CacheHas(last.cache0, ZobristHash(last.entry))) =>
        /\ ~last.raised
        /\ board = last.entry
        /\ get_mobility_features(last.entry).features = MobilityOfPosition(last.entry.pos)

\* The label that goes with a side to move.
LabelOf(turn) == IF turn THEN "White" ELSE "Black"

\* The board of the first alpha_beta_search that move_optimization invokes: the root
\* with its first legal move pushed.
FirstSearched(b) == Push(b, LegalMoves(b.pos, b.turn)[1])

\* C17: the player label of every alpha_beta_search invoked during move_optimization
\* agrees with the side to move on the board it is invoked on; in particular the label
\* of the first search after a root move does.
C17_LabelIsSideToMove ==
    (/\ last.op = "move_optimization"
     /\ last.depth >= 1
     /\ LegalMoves(last.entry.pos, last.entry.turn) # <<>>) =>
        RootPlayer = LabelOf(FirstSearched(last.entry).turn)

\* C18: for a root with at least one legal move and any depth >= 1, move_optimization
\* returns one of the root's legal moves, never the placeholder it starts with.
C18_ReturnsLegalMove ==
    (/\ last.op = "move_optimization"
     /\ last.depth >= 1
     /\ ~last.raised
     /\ LegalMoves(last.entry.pos, last.entry.turn) # <<>>) =>
        /\ last.ret_move # NoMove
        /\ IndexOf(LegalMoves(last.entry.pos, last.entry.turn), last.ret_move) # 0

\* The valuation whose features are all read from one position: the piece counts, both
\* sides' mobility and both pawn totals of pos.
PositionValuation(pos) ==
    Valuation([piece_counts |-> count_pieces(NewBoard(pos, TRUE)),
               mobility_features |-> MobilityOfPosition(pos),
               pawn_development |-> get_pawn_development(NewBoard(pos, TRUE))])

\* C19: the value stored in position_cache under a position's hash depends on that
\* position only: it is the valuation of the features read from the hashed position,
\* whatever move sequence reached it.
C19_CachedValueIsOfPosition ==
    \A i \in DOMAIN position_cache :
        position_cache[i][2] = PositionValuation(position_cache[i][1][1])

====
